---- MODULE Spec2Model ----
(***************************************************************************)
(* The news-feed pipeline of src/src/server.py: the polling worker          *)
(* (process_next_feed), the scoring worker (process_next_pending), the      *)
(* publishing worker (process_next_scored) and the feed add/delete          *)
(* requests, all acting on the SQLite store declared in src/src/models.py.  *)
(*                                                                          *)
(* Conventions                                                              *)
(*  - A nullable column is a sequence of length 0 (NULL) or 1 (a value).    *)
(*  - The queue tables are sequences in row-id order: a row id is           *)
(*    max(id)+1 on insert, so id order is insertion order, and the          *)
(*    un-ordered  query(...).first()  of the workers reads the head.        *)
(*  - Ranks are integers (the source's threshold is 8.0).                   *)
(*  - Times are seconds on the clock  now.                                  *)
(***************************************************************************)
EXTENDS Integers, Sequences, FiniteSets, TLC

VARIABLES
    feeds,          \* table feeds: set of rows [id, url, last_checked, frequency_seconds]
                    \*   plus history: last_batch, the guids of the feed's last committed poll
    entries,        \* table feed_entries: set of rows [id, feed_id, guid, discovered_at,
                    \*   score, scored_at]
                    \*   plus history: sends, the Publisher invocations made for the entry
    pending,        \* table pending_entries: sequence of entry_id, in row-id order
    scored,         \* table scored_entries: sequence of entry_id, in row-id order
    errors,         \* table error_entries: sequence of [entry_id, error_message]
    now,            \* datetime.now(timezone.utc), in seconds
    pollPc,         \* background_worker: "idle" (asleep), "fetching" (inside
                    \* fetch_rss_entries) or "looping" (an iteration returned True)
    pollFeed,       \* the Feed object loaded by process_next_feed (its session's copy)
    pollNow,        \* the local  now  of process_next_feed
    scorePc,        \* process_next_pending: "idle" or "ranking" (awaiting get_score_for_url)
    scoreEntry,     \* the local  entry_id  of process_next_pending
    discordPc,      \* process_next_scored: "idle" or "sending" (awaiting send_news_item)
    discordEntry,   \* the local  entry_id  of process_next_scored
    discordScore,   \* the local  score  of process_next_scored
    backoff_until,  \* the local  backoff_until  of discord_worker
    lastOp          \* history: the operation that produced this state

vars == <<feeds, entries, pending, scored, errors, now, pollPc, pollFeed, pollNow,
          scorePc, scoreEntry, discordPc, discordEntry, discordScore, backoff_until,
          lastOp>>

store == <<feeds, entries, pending, scored, errors>>

----------------------------------------------------------------------------
(* src/src/config.py *)

MIN_FREQUENCY_SECONDS == 300
MAX_FREQUENCY_SECONDS == 14400
DEFAULT_FREQUENCY_SECONDS == 3600
FREQUENCY_ADJUSTMENT_SECONDS == 60
DISCORD_MIN_SCORE == 8
DISCORD_RATE_LIMIT_BACKOFF_SECONDS == 300

----------------------------------------------------------------------------
(* Bounds of the model *)

\* the clock stops advancing here when the whole pipeline runs
MaxNow == 14400
\* the clock stops advancing here when only the feeds are polled
MaxPollNow == 14400
\* the clock stops advancing here when only the publishing worker runs
MaxDiscordNow == 900
\* the clock stops advancing here when the due times of two feeds are compared
MaxDueNow == 10800
\* largest feed_entries.id the polling worker may allocate
MaxEntryId == 2
\* largest feeds.id add_feed may allocate
MaxFeedId == 2
\* longest batch the decoder returns
MaxBatch == 2

\* the urls asked of add_feed: both, and the one the whole pipeline runs with
Urls == {"u1", "u2"}
OneUrl == {"u1"}
Guids == {"g1", "g2"}
\* ranks the scoring service may return: negative, zero, below, at and above the threshold
Ranks == {-1, 0, 7, 8}
\* how far the clock moves in one step
TickSteps == {MAX_FREQUENCY_SECONDS}
\* how far the clock moves in one step while only the publishing worker runs
DiscordTicks == {30, 270}
\* how far the clock moves in one step while the due times are compared
DueTicks == {DEFAULT_FREQUENCY_SECONDS}
\* frequency_seconds of a feed found in the store at startup
InitFrequencies == {MIN_FREQUENCY_SECONDS, MAX_FREQUENCY_SECONDS}

RECURSIVE SeqsUpTo(_, _)
SeqsUpTo(S, n) ==
    IF n = 0 THEN {<<>>}
    ELSE LET shorter == SeqsUpTo(S, n - 1)
         IN  shorter \cup {Append(s, x) : s \in shorter, x \in S}

\* what fetch_rss_entries may return: the guids of the parsed entries, in order
Batches == SeqsUpTo(Guids, MaxBatch)

\* the same, for a document of one entry
SingleBatches == {<<guid>> : guid \in Guids}

----------------------------------------------------------------------------
(* Helpers *)

None == <<>>
Some(v) == <<v>>

Max(a, b) == IF a >= b THEN a ELSE b
Min(a, b) == IF a <= b THEN a ELSE b

MaxOf(S) == IF S = {} THEN 0 ELSE CHOOSE m \in S : \A x \in S : x <= m

Range(s) == {s[i] : i \in 1..Len(s)}

RECURSIVE Without(_, _)
\* the rows of queue q whose entry is not in ids (ORM cascade from FeedEntry)
Without(q, ids) ==
    IF q = <<>> THEN <<>>
    ELSE IF Head(q) \in ids THEN Without(Tail(q), ids)
         ELSE <<Head(q)>> \o Without(Tail(q), ids)

\* mutant of WithoutErrors: FeedEntry.error without the delete cascade
WithoutErrorsKept(q, ids) == q

RECURSIVE WithoutErrors(_, _)
WithoutErrors(q, ids) ==
    IF q = <<>> THEN <<>>
    ELSE IF Head(q).entry_id \in ids THEN WithoutErrors(Tail(q), ids)
         ELSE <<Head(q)>> \o WithoutErrors(Tail(q), ids)

FeedIds == {f.id : f \in feeds}
EntryIds == {e.id : e \in entries}
EntryById(id) == {e \in entries : e.id = id}
EntriesOf(feed_id) == {e \in entries : e.feed_id = feed_id}

\* models.py: id = Column(Integer, primary_key=True, autoincrement=True); on
\* SQLite this is a rowid alias with no AUTOINCREMENT keyword, so the next id
\* is the largest id in the table plus one (ids of deleted rows are reused).
NextId(ids) == MaxOf(ids) + 1

----------------------------------------------------------------------------
(* Initial states *)

\* the workers as lifespan starts them
WorkersIdle ==
    /\ pollPc = "idle"
    /\ pollFeed = None
    /\ pollNow = 0
    /\ scorePc = "idle"
    /\ scoreEntry = 0
    /\ discordPc = "idle"
    /\ discordEntry = 0
    /\ discordScore = 0
    /\ backoff_until = None

\* the store as init_db creates it: every table empty
Init ==
    /\ feeds = {}
    /\ entries = {}
    /\ pending = <<>>
    /\ scored = <<>>
    /\ errors = <<>>
    /\ now = 0
    /\ WorkersIdle
    /\ lastOp = [op |-> "init"]

\* the store as a later start finds it: empty, or holding one feed whose
\* interval earlier polls have driven to a bound
InitFeeds ==
    /\ feeds \in {{}} \cup
                 {{[id |-> 1, url |-> "u1", last_checked |-> Some(0),
                    frequency_seconds |-> fr, last_batch |-> None]}
                      : fr \in InitFrequencies}
    /\ entries = {}
    /\ pending = <<>>
    /\ scored = <<>>
    /\ errors = <<>>
    /\ now = 0
    /\ WorkersIdle
    /\ lastOp = [op |-> "init"]

\* the store after one feed was added and polled at time 0, and its two
\* entries were ranked at the threshold: both wait in the scored queue
InitScored ==
    /\ feeds = {[id |-> 1, url |-> "u1", last_checked |-> Some(0),
                 frequency_seconds |-> DEFAULT_FREQUENCY_SECONDS
                                          - FREQUENCY_ADJUSTMENT_SECONDS,
                 last_batch |-> Some(Guids)]}
    /\ entries = {[id |-> 1, feed_id |-> 1, guid |-> "g1", discovered_at |-> 0,
                   score |-> Some(DISCORD_MIN_SCORE), scored_at |-> Some(0),
                   sends |-> 0],
                  [id |-> 2, feed_id |-> 1, guid |-> "g2", discovered_at |-> 0,
                   score |-> Some(DISCORD_MIN_SCORE), scored_at |-> Some(0),
                   sends |-> 0]}
    /\ pending = <<>>
    /\ scored = <<1, 2>>
    /\ errors = <<>>
    /\ now = 0
    /\ WorkersIdle
    /\ lastOp = [op |-> "init"]

workers == <<pollPc, pollFeed, pollNow, scorePc, scoreEntry,
             discordPc, discordEntry, discordScore, backoff_until>>

----------------------------------------------------------------------------
(* Control surface: add_feed and delete_feed run in the server's thread pool, *)
(* so they also run while the event loop is blocked in fetch_rss_entries      *)

\* mutant of NewFeed: the feed is created at the shortest interval
NewFeedAtFloor(url) ==
    [id |-> NextId(FeedIds), url |-> url, last_checked |-> None,
     frequency_seconds |-> MIN_FREQUENCY_SECONDS, last_batch |-> None]

\* Feed(url=.., name=.., frequency_seconds=DEFAULT_FREQUENCY_SECONDS)
NewFeed(url) ==
    [id |-> NextId(FeedIds), url |-> url, last_checked |-> None,
     frequency_seconds |-> DEFAULT_FREQUENCY_SECONDS, last_batch |-> None]

\* mutant of AddFeed: the insert without the lookup of the url
AddFeedUnchecked(url) ==
    /\ NextId(FeedIds) <= MaxFeedId
    /\ feeds' = feeds \cup {NewFeed(url)}
    /\ lastOp' = [op |-> "add_feed", feed |-> NextId(FeedIds)]
    /\ UNCHANGED <<entries, pending, scored, errors, now, workers>>

\* POST /feeds with a url no feed has
AddFeed(url) ==
    /\ \A f \in feeds : f.url # url
    /\ NextId(FeedIds) <= MaxFeedId
    /\ feeds' = feeds \cup {NewFeed(url)}
    /\ lastOp' = [op |-> "add_feed", feed |-> NextId(FeedIds)]
    /\ UNCHANGED <<entries, pending, scored, errors, now, workers>>

\* POST /feeds with a url some feed has: HTTPException(400), rollback
AddFeedExists(url) ==
    /\ \E f \in feeds : f.url = url
    /\ lastOp' = [op |-> "add_feed_400", url |-> url]
    /\ UNCHANGED <<store, now, workers>>

\* the rows session.delete(feed) removes: the feed's entries and, through
\* FeedEntry.pending / scored / error, every queue row with their entry_id
CascadeIds(feed_id) == {e.id : e \in EntriesOf(feed_id)}

\* DELETE /feeds/{feed_id} for a feed that exists
DeleteFeed(feed_id) ==
    /\ feed_id \in FeedIds
    /\ feeds' = {f \in feeds : f.id # feed_id}
    /\ entries' = {e \in entries : e.id \notin CascadeIds(feed_id)}
    /\ pending' = Without(pending, CascadeIds(feed_id))
    /\ scored' = Without(scored, CascadeIds(feed_id))
    /\ errors' = WithoutErrors(errors, CascadeIds(feed_id))
    /\ lastOp' = [op |-> "delete_feed", feed |-> feed_id,
                  entry_ids |-> CascadeIds(feed_id),
                  rows |-> [pending |-> \E id \in CascadeIds(feed_id) : id \in Range(pending),
                            scored |-> \E id \in CascadeIds(feed_id) : id \in Range(scored),
                            error |-> \E i \in 1..Len(errors) :
                                         errors[i].entry_id \in CascadeIds(feed_id)]]
    /\ UNCHANGED <<now, workers>>

\* DELETE /feeds/{feed_id} for no feed: HTTPException(404)
DeleteFeedNotFound(feed_id) ==
    /\ feed_id \notin FeedIds
    /\ lastOp' = [op |-> "delete_feed_404", feed |-> feed_id]
    /\ UNCHANGED <<store, now, workers>>

----------------------------------------------------------------------------
(* Polling worker: process_next_feed.  The coroutine never awaits, so the    *)
(* other two workers do not run between its steps, nor between an iteration  *)
(* that returned True and the next one; fetch_rss_entries blocks the event   *)
(* loop while thread-pool requests go on.                                    *)

\* mutant of FirstByLastChecked: the order is descending, nulls last
FirstByLastCheckedDesc ==
    LET checked == {f \in feeds : f.last_checked # None}
    IN  IF checked = {} THEN feeds
        ELSE {f \in checked : \A g \in checked : f.last_checked[1] >= g.last_checked[1]}

\* order_by(Feed.last_checked.asc().nullsfirst()).first(): the rows that may come first
FirstByLastChecked ==
    LET never == {f \in feeds : f.last_checked = None}
    IN  IF never # {} THEN never
        ELSE {f \in feeds : \A g \in feeds : f.last_checked[1] <= g.last_checked[1]}

\* the due test of process_next_feed
IsDue(feed, t) ==
    IF feed.last_checked = None THEN TRUE
    ELSE ~(feed.last_checked[1] + feed.frequency_seconds > t)

\* background_worker is about to call process_next_feed: it woke from its
\* sleep, or the iteration before returned True
AtLoopHead == pollPc \in {"idle", "looping"}

\* mutant of AfterProcessed: the worker yields to the event loop after an
\* iteration that returned True
AfterProcessedYields == "idle"

\* processed is True: background_worker goes on to the next call of
\* process_next_feed without an await that suspends
AfterProcessed == "looping"

\* no feed, or the selected feed is not due: return False, sleep
PollNothing ==
    /\ AtLoopHead
    /\ \/ feeds = {}
       \/ \E feed \in FirstByLastChecked : ~IsDue(feed, now)
    /\ pollPc' = "idle"
    /\ lastOp' = [op |-> "poll_nothing"]
    /\ UNCHANGED <<store, now, pollFeed, pollNow, scorePc, scoreEntry,
                   discordPc, discordEntry, discordScore, backoff_until>>

\* the selected feed is due: enter fetch_rss_entries(feed.url)
PollSelect ==
    /\ AtLoopHead
    /\ \E feed \in FirstByLastChecked :
          /\ IsDue(feed, now)
          /\ pollFeed' = Some(feed)
          /\ lastOp' = [op |-> "poll_select", feed |-> feed.id]
    /\ pollPc' = "fetching"
    /\ pollNow' = now
    /\ UNCHANGED <<store, now, scorePc, scoreEntry, discordPc, discordEntry,
                   discordScore, backoff_until>>

\* mutant of NewFrequency: the step applied without max(..) / min(..)
NewFrequencyUnclamped(frequency_seconds, new_count) ==
    IF new_count > 0
    THEN frequency_seconds - FREQUENCY_ADJUSTMENT_SECONDS
    ELSE frequency_seconds + FREQUENCY_ADJUSTMENT_SECONDS

\* mutant of NewFrequency: the two directions exchanged
NewFrequencySwapped(frequency_seconds, new_count) ==
    IF new_count > 0
    THEN Min(MAX_FREQUENCY_SECONDS, frequency_seconds + FREQUENCY_ADJUSTMENT_SECONDS)
    ELSE Max(MIN_FREQUENCY_SECONDS, frequency_seconds - FREQUENCY_ADJUSTMENT_SECONDS)

\* the new frequency_seconds after a poll that found new_count new entries
NewFrequency(frequency_seconds, new_count) ==
    IF new_count > 0
    THEN Max(MIN_FREQUENCY_SECONDS, frequency_seconds - FREQUENCY_ADJUSTMENT_SECONDS)
    ELSE Min(MAX_FREQUENCY_SECONDS, frequency_seconds + FREQUENCY_ADJUSTMENT_SECONDS)

\* mutant of Existing: the filter compares FeedEntry.id with the feed's id
ExistingWrongColumn(rows, feed_id, guid) ==
    {e \in rows : e.id = feed_id /\ e.guid = guid}

\* mutant of Existing: the lookup finds nothing
ExistingNever(rows, feed_id, guid) == {}

\* session.query(FeedEntry).filter(feed_id == .., guid == ..).first()
Existing(rows, feed_id, guid) == {e \in rows : e.feed_id = feed_id /\ e.guid = guid}

RECURSIVE AddEntriesFromEnd(_, _, _)
\* mutant of AddEntries: the fetched entries are walked from the last one
AddEntriesFromEnd(batch, feed_id, st) ==
    IF batch = <<>> THEN st
    ELSE LET guid == batch[Len(batch)]
             rest == SubSeq(batch, 1, Len(batch) - 1)
         IN  IF {e \in st.entries : e.feed_id = feed_id /\ e.guid = guid} = {}
             THEN LET feed_entry == [id |-> MaxOf({e.id : e \in st.entries}) + 1,
                                     feed_id |-> feed_id, guid |-> guid,
                                     discovered_at |-> now,
                                     score |-> None, scored_at |-> None, sends |-> 0]
                  IN  AddEntriesFromEnd(rest, feed_id,
                                        [entries |-> st.entries \cup {feed_entry},
                                         pending |-> Append(st.pending, feed_entry.id),
                                         new_count |-> st.new_count + 1])
             ELSE AddEntriesFromEnd(rest, feed_id, st)

RECURSIVE AddEntriesNoPending(_, _, _)
\* mutant of AddEntries: the entry is inserted without its pending row
AddEntriesNoPending(batch, feed_id, st) ==
    IF batch = <<>> THEN st
    ELSE IF {e \in st.entries : e.feed_id = feed_id /\ e.guid = Head(batch)} = {}
         THEN LET feed_entry == [id |-> MaxOf({e.id : e \in st.entries}) + 1,
                                 feed_id |-> feed_id, guid |-> Head(batch),
                                 discovered_at |-> now,
                                 score |-> None, scored_at |-> None, sends |-> 0]
              IN  AddEntriesNoPending(Tail(batch), feed_id,
                                      [entries |-> st.entries \cup {feed_entry},
                                       pending |-> st.pending,
                                       new_count |-> st.new_count + 1])
         ELSE AddEntriesNoPending(Tail(batch), feed_id, st)

RECURSIVE AddEntries(_, _, _)
\* the loop over the fetched entries; st = [entries, pending, new_count]
AddEntries(batch, feed_id, st) ==
    IF batch = <<>> THEN st
    ELSE IF Existing(st.entries, feed_id, Head(batch)) = {}
         THEN LET feed_entry == [id |-> NextId({e.id : e \in st.entries}),
                                 feed_id |-> feed_id, guid |-> Head(batch),
                                 discovered_at |-> now,
                                 score |-> None, scored_at |-> None, sends |-> 0]
              IN  AddEntries(Tail(batch), feed_id,
                             [entries |-> st.entries \cup {feed_entry},
                              pending |-> Append(st.pending, feed_entry.id),
                              new_count |-> st.new_count + 1])
         ELSE AddEntries(Tail(batch), feed_id, st)

\* mutant of UpdatedFeed: the interval backs off on every write of the feed
UpdatedFeedBackedOff(row, last_checked, frequency_seconds) ==
    [row EXCEPT !.last_checked = Some(last_checked),
                !.frequency_seconds =
                    Min(MAX_FREQUENCY_SECONDS,
                        frequency_seconds + FREQUENCY_ADJUSTMENT_SECONDS)]

\* the UPDATE of the loaded feed at commit: only the attributes that changed
\* are written, to the row that has the feed's id now
UpdatedFeed(row, last_checked, frequency_seconds) ==
    [row EXCEPT !.last_checked = Some(last_checked),
                !.frequency_seconds =
                    IF frequency_seconds = pollFeed[1].frequency_seconds
                    THEN row.frequency_seconds ELSE frequency_seconds]

\* fetch_rss_entries raised: last_checked = now, return True.  The commit's
\* UPDATE matches no row when the feed was deleted meanwhile (StaleDataError).
PollFetchFailed ==
    /\ pollPc = "fetching"
    /\ LET feed == pollFeed[1]
           committed == feed.id \in FeedIds
       IN  /\ feeds' = IF committed
                       THEN {IF f.id = feed.id
                             THEN UpdatedFeed(f, pollNow, feed.frequency_seconds)
                             ELSE f : f \in feeds}
                       ELSE feeds
           /\ lastOp' = [op |-> "poll_failed", feed |-> feed.id, committed |-> committed,
                         frequency_before |-> feed.frequency_seconds, at |-> pollNow]
           /\ pollPc' = IF committed THEN AfterProcessed ELSE "idle"
    /\ pollFeed' = None
    /\ pollNow' = 0
    /\ UNCHANGED <<entries, pending, scored, errors, now, scorePc, scoreEntry,
                   discordPc, discordEntry, discordScore, backoff_until>>

\* fetch_rss_entries returned batch: insert what is new, update the feed, commit
PollFetched(batch) ==
    /\ pollPc = "fetching"
    /\ LET feed == pollFeed[1]
           st == AddEntries(batch, feed.id,
                            [entries |-> entries, pending |-> pending, new_count |-> 0])
           committed == feed.id \in FeedIds
       IN  /\ \A e \in st.entries : e.id <= MaxEntryId
           /\ feeds' = IF committed
                       THEN {IF f.id = feed.id
                             THEN [UpdatedFeed(f, pollNow,
                                      NewFrequency(feed.frequency_seconds, st.new_count))
                                   EXCEPT !.last_batch = Some(Range(batch))]
                             ELSE f : f \in feeds}
                       ELSE feeds
           /\ entries' = IF committed THEN st.entries ELSE entries
           /\ pending' = IF committed THEN st.pending ELSE pending
           /\ lastOp' = [op |-> "poll", feed |-> feed.id, batch |-> batch,
                         new_count |-> st.new_count, committed |-> committed,
                         frequency_before |-> feed.frequency_seconds, at |-> pollNow,
                         repeat |-> \E f \in feeds :
                                      f.id = feed.id /\ f.last_batch = Some(Range(batch))]
           /\ pollPc' = IF committed THEN AfterProcessed ELSE "idle"
    /\ pollFeed' = None
    /\ pollNow' = 0
    /\ UNCHANGED <<scored, errors, now, scorePc, scoreEntry,
                   discordPc, discordEntry, discordScore, backoff_until>>

----------------------------------------------------------------------------
(* Scoring worker: process_next_pending.  Its first session deletes the     *)
(* claimed pending row and commits; the ranker call is awaited outside any  *)
(* session; a second session records the outcome.                           *)

\* the worker coroutines run on the event loop, which background_worker
\* holds from the start of an iteration until it reaches a sleep
LoopFree == pollPc \notin {"fetching", "looping"}

\* session.query(PendingEntry).first() is None: return False
ScoreNothing ==
    /\ LoopFree
    /\ scorePc = "idle"
    /\ pending = <<>>
    /\ lastOp' = [op |-> "score_nothing"]
    /\ UNCHANGED <<store, now, workers>>

\* mutant of ScoreClaim: the newest pending row is claimed
ScoreClaimNewest ==
    /\ LoopFree
    /\ scorePc = "idle"
    /\ pending # <<>>
    /\ EntryById(pending[Len(pending)]) # {}
    /\ pending' = SubSeq(pending, 1, Len(pending) - 1)
    /\ scorePc' = "ranking"
    /\ scoreEntry' = pending[Len(pending)]
    /\ lastOp' = [op |-> "score_claim", entry |-> pending[Len(pending)]]
    /\ UNCHANGED <<feeds, entries, scored, errors, now, pollPc, pollFeed, pollNow,
                   discordPc, discordEntry, discordScore, backoff_until>>

\* first session: read the entry, session.delete(pending), commit
ScoreClaim ==
    /\ LoopFree
    /\ scorePc = "idle"
    /\ pending # <<>>
    /\ IF EntryById(Head(pending)) = {}
       THEN \* pending.entry is None: AttributeError, rollback
            /\ lastOp' = [op |-> "score_claim_raised", entry |-> Head(pending)]
            /\ UNCHANGED <<store, now, workers>>
       ELSE /\ pending' = Tail(pending)
            /\ scorePc' = "ranking"
            /\ scoreEntry' = Head(pending)
            /\ lastOp' = [op |-> "score_claim", entry |-> Head(pending)]
            /\ UNCHANGED <<feeds, entries, scored, errors, now, pollPc, pollFeed, pollNow,
                           discordPc, discordEntry, discordScore, backoff_until>>

\* messages of ScoringError (scoring.py get_score_for_url)
ScoringErrors == {"Request timed out after 120s"}

\* the JSON objects the ranker may answer: with a "rank", or without one
RankerResults == {Some(r) : r \in Ranks} \cup {None}

\* score = result.get("rank", 0)
RankOf(result) == IF result = None THEN 0 ELSE result[1]

\* history: the entry the worker claimed is still in the store.  An entry
\* that has the claimed id and a pending row is a later entry the id was
\* given to again: the claimed entry's pending row was deleted at the claim.
ClaimedEntryKept == EntryById(scoreEntry) # {} /\ scoreEntry \notin Range(pending)

\* get_score_for_url raised ScoringError: ErrorEntry(entry_id, str(err)), commit
ScoreFailed(message) ==
    /\ LoopFree
    /\ scorePc = "ranking"
    /\ errors' = Append(errors, [entry_id |-> scoreEntry, error_message |-> message])
    /\ scorePc' = "idle"
    /\ scoreEntry' = 0
    /\ lastOp' = [op |-> "score", entry |-> scoreEntry, outcome |-> "error",
                  message |-> message, claimed |-> ClaimedEntryKept]
    /\ UNCHANGED <<feeds, entries, pending, scored, now, pollPc, pollFeed, pollNow,
                   discordPc, discordEntry, discordScore, backoff_until>>

\* mutant of WithScore: scored_at read from a clock that stands at its start
WithScoreNoClock(entry_id, score) ==
    {IF e.id = entry_id THEN [e EXCEPT !.score = Some(score), !.scored_at = Some(0)]
     ELSE e : e \in entries}

\* the rows after  entry.score = score; entry.scored_at = now
WithScore(entry_id, score) ==
    {IF e.id = entry_id THEN [e EXCEPT !.score = Some(score), !.scored_at = Some(now)]
     ELSE e : e \in entries}

\* get_score_for_url returned result: second session
ScoreRanked(result) ==
    /\ LoopFree
    /\ scorePc = "ranking"
    /\ LET score == RankOf(result)
       IN  IF score = 0
           THEN /\ errors' = Append(errors, [entry_id |-> scoreEntry,
                                             error_message |-> "Score returned 0"])
                /\ lastOp' = [op |-> "score", entry |-> scoreEntry, outcome |-> "zero",
                              result |-> result, claimed |-> ClaimedEntryKept]
                /\ UNCHANGED <<entries, scored>>
           ELSE IF EntryById(scoreEntry) = {}
           THEN \* session.get returned None: AttributeError on entry.score, rollback
                /\ lastOp' = [op |-> "score", entry |-> scoreEntry, outcome |-> "gone",
                              result |-> result, claimed |-> ClaimedEntryKept]
                /\ UNCHANGED <<entries, scored, errors>>
           ELSE /\ entries' = WithScore(scoreEntry, score)
                /\ scored' = Append(scored, scoreEntry)
                /\ lastOp' = [op |-> "score", entry |-> scoreEntry, outcome |-> "scored",
                              result |-> result, claimed |-> ClaimedEntryKept]
                /\ UNCHANGED errors
    /\ scorePc' = "idle"
    /\ scoreEntry' = 0
    /\ UNCHANGED <<feeds, pending, now, pollPc, pollFeed, pollNow,
                   discordPc, discordEntry, discordScore, backoff_until>>

\* mutant of ScoreRaised: the exception ends the scoring_worker coroutine
ScoreRaisedEndsWorker ==
    /\ LoopFree
    /\ scorePc = "ranking"
    /\ scorePc' = "done"
    /\ scoreEntry' = 0
    /\ lastOp' = [op |-> "score", entry |-> scoreEntry, outcome |-> "raised"]
    /\ UNCHANGED <<store, now, pollPc, pollFeed, pollNow,
                   discordPc, discordEntry, discordScore, backoff_until>>

\* the ranker call ended with an exception that is no ScoringError (a JSON
\* answer that is no object, http.client.IncompleteRead): nothing is written
ScoreRaised ==
    /\ LoopFree
    /\ scorePc = "ranking"
    /\ scorePc' = "idle"
    /\ scoreEntry' = 0
    /\ lastOp' = [op |-> "score", entry |-> scoreEntry, outcome |-> "raised"]
    /\ UNCHANGED <<store, now, pollPc, pollFeed, pollNow,
                   discordPc, discordEntry, discordScore, backoff_until>>

----------------------------------------------------------------------------
(* Publishing worker: discord_worker and process_next_scored.  The session  *)
(* deletes the claimed scored row and commits before the threshold test and *)
(* before send_news_item is awaited.                                        *)

\* mutant of BackoffOver: the backoff is never waited for
BackoffOverAlways == TRUE

\* mutant of BackoffOver: an armed backoff never expires
BackoffOverNever == backoff_until = None

\* discord_worker: no backoff, or the backoff has expired
BackoffOver ==
    IF backoff_until = None THEN TRUE ELSE ~(now < backoff_until[1])

\* backoff_until is in the future: sleep, continue
DiscordBackoff ==
    /\ LoopFree
    /\ discordPc = "idle"
    /\ ~BackoffOver
    /\ lastOp' = [op |-> "discord_backoff",
                  sleep |-> Min(backoff_until[1] - now, 60)]
    /\ UNCHANGED <<store, now, workers>>

\* session.query(ScoredEntry).first() is None: return False
PublishNothing ==
    /\ LoopFree
    /\ discordPc = "idle"
    /\ BackoffOver
    /\ scored = <<>>
    /\ backoff_until' = None
    /\ lastOp' = [op |-> "publish_nothing"]
    /\ UNCHANGED <<store, now, pollPc, pollFeed, pollNow, scorePc, scoreEntry,
                   discordPc, discordEntry, discordScore>>

\* score = entry.score or 0
ScoreOrZero(entry) == IF entry.score = None THEN 0 ELSE entry.score[1]

\* mutant of BelowThreshold: the threshold taken one too low
BelowThresholdOffByOne(score) == score < DISCORD_MIN_SCORE - 1

\* the threshold test of process_next_scored
BelowThreshold(score) == score < DISCORD_MIN_SCORE

\* the entry rows after one more Publisher invocation for entry_id (history)
CountSend(entry_id) ==
    {IF e.id = entry_id THEN [e EXCEPT !.sends = e.sends + 1] ELSE e : e \in entries}

\* claim the first scored row, delete it, commit; then skip or start sending
PublishClaim ==
    /\ LoopFree
    /\ discordPc = "idle"
    /\ BackoffOver
    /\ scored # <<>>
    /\ backoff_until' = None
    /\ IF EntryById(Head(scored)) = {}
       THEN \* scored.entry is None: AttributeError, rollback
            /\ lastOp' = [op |-> "publish_claim_raised", entry |-> Head(scored)]
            /\ UNCHANGED <<store, discordPc, discordEntry, discordScore>>
       ELSE LET entry == CHOOSE e \in EntryById(Head(scored)) : TRUE
                score == ScoreOrZero(entry)
            IN  /\ scored' = Tail(scored)
                /\ IF BelowThreshold(score)
                   THEN /\ lastOp' = [op |-> "publish", entry |-> entry.id,
                                      outcome |-> "skip", score |-> score]
                        /\ UNCHANGED <<entries, discordPc, discordEntry, discordScore>>
                   ELSE /\ discordPc' = "sending"
                        /\ discordEntry' = entry.id
                        /\ discordScore' = score
                        /\ entries' = CountSend(entry.id)
                        /\ lastOp' = [op |-> "publish_send", entry |-> entry.id,
                                      score |-> score]
                /\ UNCHANGED <<feeds, pending, errors>>
    /\ UNCHANGED <<now, pollPc, pollFeed, pollNow, scorePc, scoreEntry>>

\* how the awaited send_news_item may end: it returns True or False, or it
\* raises; err_str is known by the two substrings the worker looks for
SendOutcomes ==
    {[raised |-> FALSE, success |-> b, rate_limit |-> FALSE, too_many |-> FALSE]
        : b \in BOOLEAN}
    \cup {[raised |-> TRUE, success |-> FALSE, rate_limit |-> r, too_many |-> t]
        : r \in BOOLEAN, t \in BOOLEAN}

\* how asyncio.run(send()) inside send_to_discord may end: the message was
\* sent, the channel was not found, or the discord client raised an error
\* whose message holds "rate limit", "too many" or neither
ClientOutcomes == {"sent", "no_channel", "rate limit", "too many", "other"}

\* send_to_discord with a token: True only after channel.send; every
\* exception of the client is caught, logged and answered with False
send_to_discord(client) ==
    [raised |-> FALSE, success |-> (client = "sent"),
     rate_limit |-> FALSE, too_many |-> FALSE]

\* the value process_next_scored returns after the send
SendResult(outcome) ==
    IF outcome.raised /\ (outcome.rate_limit \/ outcome.too_many)
    THEN "rate_limited" ELSE "True"

\* send_news_item ended: process_next_scored returns, discord_worker arms the backoff
PublishDone(outcome) ==
    /\ LoopFree
    /\ discordPc = "sending"
    /\ discordPc' = "idle"
    /\ backoff_until' = IF SendResult(outcome) = "rate_limited"
                        THEN Some(now + DISCORD_RATE_LIMIT_BACKOFF_SECONDS)
                        ELSE backoff_until
    /\ lastOp' = [op |-> "publish", entry |-> discordEntry,
                  outcome |-> IF SendResult(outcome) = "rate_limited" THEN "rate_limited"
                              ELSE IF outcome.raised THEN "raised"
                              ELSE IF outcome.success THEN "sent" ELSE "not_sent",
                  score |-> discordScore]
    /\ discordEntry' = 0
    /\ discordScore' = 0
    /\ UNCHANGED <<store, now, pollPc, pollFeed, pollNow, scorePc, scoreEntry>>

----------------------------------------------------------------------------
(* Environment *)

\* time passes, up to limit
TickTo(d, limit) ==
    /\ now + d <= limit
    /\ now' = now + d
    /\ lastOp' = [op |-> "tick"]
    /\ UNCHANGED <<store, workers>>

Tick(d) == TickTo(d, MaxNow)

\* the process stops at any moment and is started again (lifespan): the store
\* is what was committed, the workers start afresh, backoff_until is None
Restart ==
    /\ pollPc' = "idle"
    /\ pollFeed' = None
    /\ scorePc' = "idle"
    /\ discordPc' = "idle"
    /\ backoff_until' = None
    /\ pollNow' = 0
    /\ scoreEntry' = 0
    /\ discordEntry' = 0
    /\ discordScore' = 0
    /\ lastOp' = [op |-> "restart"]
    /\ UNCHANGED <<store, now>>

\* the whole pipeline, fed one url
Next ==
    \/ \E url \in OneUrl : AddFeed(url)
    \/ \E url \in OneUrl : AddFeedExists(url)
    \/ \E feed_id \in 1..MaxFeedId : DeleteFeed(feed_id)
    \/ \E feed_id \in 1..MaxFeedId : DeleteFeedNotFound(feed_id)
    \/ PollNothing
    \/ PollSelect
    \/ PollFetchFailed
    \/ \E batch \in Batches : PollFetched(batch)
    \/ ScoreNothing
    \/ ScoreClaim
    \/ \E message \in ScoringErrors : ScoreFailed(message)
    \/ \E result \in RankerResults : ScoreRanked(result)
    \/ ScoreRaised
    \/ DiscordBackoff
    \/ PublishNothing
    \/ PublishClaim
    \/ \E outcome \in SendOutcomes : PublishDone(outcome)
    \/ \E d \in TickSteps : Tick(d)
    \/ Restart

Spec == Init /\ [][Next]_vars

\* the feeds and their polling as time passes, fed two urls
NextFeeds ==
    \/ \E url \in Urls : AddFeed(url)
    \/ \E url \in Urls : AddFeedExists(url)
    \/ \E feed_id \in 1..MaxFeedId : DeleteFeed(feed_id)
    \/ \E feed_id \in 1..MaxFeedId : DeleteFeedNotFound(feed_id)
    \/ PollNothing
    \/ PollSelect
    \/ PollFetchFailed
    \/ \E batch \in Batches : PollFetched(batch)
    \/ \E d \in TickSteps : TickTo(d, MaxPollNow)

SpecFeeds == InitFeeds /\ [][NextFeeds]_vars

\* feeds are added and polled while the clock moves in steps shorter than
\* the longest interval
NextDue ==
    \/ \E url \in Urls : AddFeed(url)
    \/ \E url \in Urls : AddFeedExists(url)
    \/ PollNothing
    \/ PollSelect
    \/ PollFetchFailed
    \/ \E batch \in SingleBatches : PollFetched(batch)
    \/ \E d \in DueTicks : TickTo(d, MaxDueNow)

SpecDue == InitFeeds /\ [][NextDue]_vars

\* datetime.now() of a call of process_next_feed is later than the one an
\* earlier call stored in last_checked
ClockMoved == \A f \in feeds : f.last_checked # None => f.last_checked[1] < now

\* two feeds polled in turn while the clock moves between the polls
NextRoundRobin ==
    \/ \E url \in Urls : AddFeed(url)
    \/ \E feed_id \in 1..MaxFeedId : DeleteFeed(feed_id)
    \/ PollNothing
    \/ ClockMoved /\ PollSelect
    \/ PollFetchFailed
    \/ \E batch \in SingleBatches : PollFetched(batch)
    \/ \E d \in DueTicks : TickTo(d, MaxDueNow)

SpecRoundRobin == InitFeeds /\ [][NextRoundRobin]_vars

\* the store under polling, scoring and feed requests, fed two urls of
\* one-entry documents, clock stopped
NextStore ==
    \/ \E url \in Urls : AddFeed(url)
    \/ \E url \in Urls : AddFeedExists(url)
    \/ \E feed_id \in 1..MaxFeedId : DeleteFeed(feed_id)
    \/ \E feed_id \in 1..MaxFeedId : DeleteFeedNotFound(feed_id)
    \/ PollNothing
    \/ PollSelect
    \/ PollFetchFailed
    \/ \E batch \in SingleBatches : PollFetched(batch)
    \/ ScoreNothing
    \/ ScoreClaim
    \/ \E message \in ScoringErrors : ScoreFailed(message)
    \/ \E result \in RankerResults : ScoreRanked(result)
    \/ ScoreRaised

SpecStore == Init /\ [][NextStore]_vars

\* the publishing worker alone as time passes, two entries waiting
NextDiscord ==
    \/ DiscordBackoff
    \/ PublishNothing
    \/ PublishClaim
    \/ \E outcome \in SendOutcomes : PublishDone(outcome)
    \/ \E d \in DiscordTicks : TickTo(d, MaxDiscordNow)
    \/ Restart

SpecDiscord == InitScored /\ [][NextDiscord]_vars

\* one iteration step of each worker loop (while True: ... in
\* background_worker, scoring_worker, discord_worker)
background_worker ==
    \/ PollNothing
    \/ PollSelect
    \/ PollFetchFailed
    \/ \E batch \in Batches : PollFetched(batch)

scoring_worker ==
    \/ ScoreNothing
    \/ ScoreClaim
    \/ \E message \in ScoringErrors : ScoreFailed(message)
    \/ \E result \in RankerResults : ScoreRanked(result)
    \/ ScoreRaised

discord_worker ==
    \/ DiscordBackoff
    \/ PublishNothing
    \/ PublishClaim
    \/ \E outcome \in SendOutcomes : PublishDone(outcome)

\* the pipeline while the process stays up and no feed is deleted, fed one url
NextLive ==
    \/ \E url \in OneUrl : AddFeed(url)
    \/ \E url \in OneUrl : AddFeedExists(url)
    \/ background_worker
    \/ scoring_worker
    \/ discord_worker
    \/ \E d \in TickSteps : Tick(d)

\* each worker loop keeps iterating, and every call it awaits ends
SpecLive ==
    /\ Init
    /\ [][NextLive]_vars
    /\ WF_vars(background_worker)
    /\ WF_vars(scoring_worker)
    /\ WF_vars(discord_worker)

\* the whole pipeline, fed one url, while the process stays up and every
\* send_news_item call returns what send_to_discord returns (nothing raises
\* outside its try, so no iteration ends rate-limited); no clock
NextPublish ==
    \/ \E url \in OneUrl : AddFeed(url)
    \/ \E url \in OneUrl : AddFeedExists(url)
    \/ \E feed_id \in 1..MaxFeedId : DeleteFeed(feed_id)
    \/ \E feed_id \in 1..MaxFeedId : DeleteFeedNotFound(feed_id)
    \/ PollNothing
    \/ PollSelect
    \/ PollFetchFailed
    \/ \E batch \in SingleBatches : PollFetched(batch)
    \/ ScoreNothing
    \/ ScoreClaim
    \/ \E message \in ScoringErrors : ScoreFailed(message)
    \/ \E result \in RankerResults : ScoreRanked(result)
    \/ ScoreRaised
    \/ PublishNothing
    \/ PublishClaim
    \/ \E client \in ClientOutcomes : PublishDone(send_to_discord(client))

SpecPublish == Init /\ [][NextPublish]_vars

\* cli.py: the url -> score mappings built from the training items fetched
\* from the scoring service; an entry's link is known here by its guid
TrainingSets == {[g \in {"g1"} |-> r] : r \in {7, 8}}

\* cli.py apply_training_scores: every entry whose link is in the training
\* set and whose score differs gets the training score and scored_at = now
Trained(rows, url_to_score) ==
    {IF e.guid \in DOMAIN url_to_score /\ e.score # Some(url_to_score[e.guid])
     THEN [e EXCEPT !.score = Some(url_to_score[e.guid]), !.scored_at = Some(now)]
     ELSE e : e \in rows}

\* the command-line process runs update_trained (or export_rss) on the store
apply_training_scores(url_to_score) ==
    /\ entries' = Trained(entries, url_to_score)
    /\ lastOp' = [op |-> "apply_training_scores"]
    /\ UNCHANGED <<feeds, pending, scored, errors, now, workers>>

\* the pipeline of SpecPublish with the command line's training update
NextTraining ==
    \/ NextPublish
    \/ \E url_to_score \in TrainingSets : apply_training_scores(url_to_score)

SpecTraining == Init /\ [][NextTraining]_vars

\* seconds of one day: today_start is now with hour, minute, second and
\* microsecond set to 0
DaySeconds == 86400
TodayStart(t) == t - (t % DaySeconds)

\* a scored row is inserted in the session that sets its entry's scored_at,
\* so ScoredEntry.created_at is read from the entry the row refers to
ScoredCreatedAt(entry_id) ==
    IF \E e \in entries : e.id = entry_id /\ e.scored_at # None
    THEN (CHOOSE e \in entries : e.id = entry_id /\ e.scored_at # None).scored_at[1]
    ELSE 0

\* session.query(ScoredEntry).filter(ScoredEntry.created_at >= today_start).count()
scored_today ==
    Cardinality({i \in 1..Len(scored) : ScoredCreatedAt(scored[i]) >= TodayStart(now)})

\* GET /stats: counts read in one session, nothing written
get_stats ==
    /\ lastOp' = [op |-> "stats",
                  total_pending |-> Len(pending),
                  total_scored |-> Len(scored),
                  total_errors |-> Len(errors),
                  scored_today |-> scored_today]
    /\ UNCHANGED <<store, now, workers>>

\* the publishing worker of SpecDiscord while GET /stats is served
NextStats ==
    \/ NextDiscord
    \/ get_stats

SpecStats == InitScored /\ [][NextStats]_vars

\* the clock of the publishing worker
DiscordClock == \E d \in DiscordTicks : TickTo(d, MaxDiscordNow)

\* the publishing worker alone while the process stays up
NextDiscordLive ==
    \/ discord_worker
    \/ DiscordClock

\* the publishing worker keeps iterating and time passes, while the process
\* may be stopped and started again at any moment
SpecDiscordRestart ==
    /\ InitScored
    /\ [][NextDiscord]_vars
    /\ WF_vars(discord_worker)
    /\ WF_vars(DiscordClock)

\* discord_worker keeps iterating, every send ends, and time passes
SpecDiscordLive ==
    /\ InitScored
    /\ [][NextDiscordLive]_vars
    /\ WF_vars(discord_worker)
    /\ WF_vars(DiscordClock)

----------------------------------------------------------------------------
(* Lifespan: startup and shutdown of one process.  A worker that has not   *)
(* been created is "off"; task.cancel() leaves a worker "cancelled" at the  *)
(* await it is suspended in; "done" is a worker whose coroutine has ended.  *)

\* the process before lifespan runs: no worker task exists
InitBoot ==
    /\ feeds = {}
    /\ entries = {}
    /\ pending = <<>>
    /\ scored = <<>>
    /\ errors = <<>>
    /\ now = 0
    /\ pollPc = "off"
    /\ pollFeed = None
    /\ pollNow = 0
    /\ scorePc = "off"
    /\ scoreEntry = 0
    /\ discordPc = "off"
    /\ discordEntry = 0
    /\ discordScore = 0
    /\ backoff_until = None
    /\ lastOp = [op |-> "boot"]

\* init_db() returns (ok) or raises (~ok); when it raises, lifespan ends there
init_db(ok) ==
    /\ lastOp.op = "boot"
    /\ lastOp' = [op |-> "init_db", ok |-> ok]
    /\ UNCHANGED <<store, now, workers>>

\* mutant of StartWorkers: the tasks are created whether or not init_db ran
StartWorkersUnchecked ==
    /\ pollPc = "off"
    /\ pollPc' = "idle"
    /\ scorePc' = "idle"
    /\ discordPc' = "idle"
    /\ lastOp' = [op |-> "start_workers"]
    /\ UNCHANGED <<store, now, pollFeed, pollNow, scoreEntry, discordEntry,
                   discordScore, backoff_until>>

\* the three asyncio.create_task calls, reached after init_db returned
StartWorkers ==
    /\ lastOp.op = "init_db"
    /\ lastOp.ok
    /\ pollPc = "off"
    /\ pollPc' = "idle"
    /\ scorePc' = "idle"
    /\ discordPc' = "idle"
    /\ lastOp' = [op |-> "start_workers"]
    /\ UNCHANGED <<store, now, pollFeed, pollNow, scoreEntry, discordEntry,
                   discordScore, backoff_until>>

\* the worker tasks exist and none was cancelled: requests are served
Serving ==
    /\ pollPc \in {"idle", "fetching", "looping"}
    /\ scorePc \in {"idle", "ranking"}
    /\ discordPc \in {"idle", "sending"}

\* after the yield: feed_task.cancel(), scoring_task.cancel(),
\* discord_task.cancel().  lifespan runs on the event loop, so every worker
\* is suspended in an await: a sleep, or the to_thread call of its iteration.
Shutdown ==
    /\ Serving
    /\ LoopFree
    /\ pollPc' = "cancelled"
    /\ scorePc' = "cancelled"
    /\ discordPc' = "cancelled"
    /\ lastOp' = [op |-> "shutdown"]
    /\ UNCHANGED <<store, now, pollFeed, pollNow, scoreEntry, discordEntry,
                   discordScore, backoff_until>>

\* CancelledError is raised at the await of background_worker; it is no
\* Exception, so the except clause lets it end the coroutine
PollCancelled ==
    /\ pollPc = "cancelled"
    /\ pollPc' = "done"
    /\ lastOp' = [op |-> "cancelled", worker |-> "background_worker"]
    /\ UNCHANGED <<store, now, pollFeed, pollNow, scorePc, scoreEntry,
                   discordPc, discordEntry, discordScore, backoff_until>>

\* mutant of ScoreCancelled: the except clause of scoring_worker catches the
\* CancelledError, the worker sleeps and goes on
ScoreCancelledCaught ==
    /\ scorePc = "cancelled"
    /\ scorePc' = "idle"
    /\ scoreEntry' = 0
    /\ lastOp' = [op |-> "cancelled", worker |-> "scoring_worker"]
    /\ UNCHANGED <<store, now, pollPc, pollFeed, pollNow,
                   discordPc, discordEntry, discordScore, backoff_until>>

\* CancelledError is raised at the await of scoring_worker or of
\* process_next_pending (except ScoringError does not catch it)
ScoreCancelled ==
    /\ scorePc = "cancelled"
    /\ scorePc' = "done"
    /\ scoreEntry' = 0
    /\ lastOp' = [op |-> "cancelled", worker |-> "scoring_worker"]
    /\ UNCHANGED <<store, now, pollPc, pollFeed, pollNow,
                   discordPc, discordEntry, discordScore, backoff_until>>

\* mutant of DiscordCancelled: the except clause of process_next_scored
\* catches the CancelledError and the worker goes on
DiscordCancelledCaught ==
    /\ discordPc = "cancelled"
    /\ discordPc' = "idle"
    /\ discordEntry' = 0
    /\ discordScore' = 0
    /\ lastOp' = [op |-> "cancelled", worker |-> "discord_worker"]
    /\ UNCHANGED <<store, now, pollPc, pollFeed, pollNow, scorePc, scoreEntry,
                   backoff_until>>

\* CancelledError is raised at the await of discord_worker or of
\* process_next_scored (except Exception does not catch it)
DiscordCancelled ==
    /\ discordPc = "cancelled"
    /\ discordPc' = "done"
    /\ discordEntry' = 0
    /\ discordScore' = 0
    /\ lastOp' = [op |-> "cancelled", worker |-> "discord_worker"]
    /\ UNCHANGED <<store, now, pollPc, pollFeed, pollNow, scorePc, scoreEntry,
                   backoff_until>>

\* one process from startup to shutdown, fed one url
NextLifespan ==
    \/ \E ok \in BOOLEAN : init_db(ok)
    \/ StartWorkers
    \/ \E url \in OneUrl : Serving /\ AddFeed(url)
    \/ \E url \in OneUrl : Serving /\ AddFeedExists(url)
    \/ PollNothing
    \/ PollSelect
    \/ PollFetchFailed
    \/ \E batch \in SingleBatches : PollFetched(batch)
    \/ scoring_worker
    \/ discord_worker
    \/ \E d \in TickSteps : Tick(d)
    \/ Shutdown
    \/ PollCancelled
    \/ ScoreCancelled
    \/ DiscordCancelled

SpecLifespan == InitBoot /\ [][NextLifespan]_vars

\* lifespan awaits the three cancelled tasks: the event loop runs each of
\* them once more, which raises the CancelledError at its await
SpecLifespanLive ==
    /\ InitBoot
    /\ [][NextLifespan]_vars
    /\ WF_vars(PollCancelled)
    /\ WF_vars(ScoreCancelled)
    /\ WF_vars(DiscordCancelled)

----------------------------------------------------------------------------
(* Sessions *)

\* the workers that are inside a network call: fetch_rss_entries (line 99),
\* get_score_for_url (line 174), send_news_item (line 266)
InNetworkCall ==
    (IF pollPc = "fetching" THEN {"background_worker"} ELSE {})
    \cup (IF scorePc = "ranking" THEN {"scoring_worker"} ELSE {})
    \cup (IF discordPc = "sending" THEN {"discord_worker"} ELSE {})

\* the workers that are inside a  with get_session()  block at their position:
\* process_next_feed calls fetch_rss_entries inside its block (lines 80-130);
\* the first block of process_next_pending ends at line 170, before the call,
\* and the block of process_next_scored ends at line 250, before the send
OpenSessions ==
    IF pollPc = "fetching" THEN {"background_worker"} ELSE {}

----------------------------------------------------------------------------
(* Queue rows *)

\* the entry ids the rows of error_entries refer to
ErrorIds == {errors[i].entry_id : i \in 1..Len(errors)}

\* how many rows of queue q refer to entry id
RowCount(q, id) == Cardinality({i \in 1..Len(q) : q[i] = id})
ErrorRowCount(id) == Cardinality({i \in 1..Len(errors) : errors[i].entry_id = id})

\* how many rows of the three queues refer to entry id
QueueRows(id) == RowCount(pending, id) + RowCount(scored, id) + ErrorRowCount(id)

----------------------------------------------------------------------------
(* Claims *)

\* C1: pipeline exclusivity: every entry is referenced by at most one row in
\* total across the pending, scored and error queues, in every committed state.
C1_PipelineExclusivity == \A e \in entries : QueueRows(e.id) <= 1

\* C2: crash safety of the queue position: while the ranker call for an entry
\* is in flight the store still holds that entry's pending row, and while the
\* send for an entry is in flight the store still holds its scored row, so a
\* process that stops at that moment loses no queue position.
C2_CrashSafety ==
    /\ (scorePc = "ranking" /\ EntryById(scoreEntry) # {})
          => scoreEntry \in Range(pending)
    /\ (discordPc = "sending" /\ EntryById(discordEntry) # {})
          => discordEntry \in Range(scored)

\* C3: after a scoring iteration that ended with a rank (positive, negative,
\* zero or missing) or a ScoringError, exactly one of these holds for the
\* entry: it has a scored row and its score is > 0, or it has an error row.
C3_ScoredXorError ==
    (lastOp.op = "score" /\ lastOp.outcome \in {"scored", "zero", "error"})
      => LET has_scored == /\ lastOp.entry \in Range(scored)
                           /\ \E e \in EntryById(lastOp.entry) :
                                 e.score # None /\ e.score[1] > 0
             has_error == lastOp.entry \in ErrorIds
         IN  has_scored # has_error

\* C4: when a publishing iteration ends with the rate-limit outcome, the
\* scored row of the entry being published is still in the store.
C4_RateLimitKeepsSlot ==
    (lastOp.op = "publish" /\ lastOp.outcome = "rate_limited"
        /\ EntryById(lastOp.entry) # {})
      => lastOp.entry \in Range(scored)

\* C5: no orphans: every pending, scored and error row refers to an entry that
\* exists, and every entry refers to a feed that exists.
C5_NoOrphans ==
    /\ Range(pending) \subseteq EntryIds
    /\ Range(scored) \subseteq EntryIds
    /\ ErrorIds \subseteq EntryIds
    /\ \A e \in entries : e.feed_id \in FeedIds

\* C6: interval range: every feed's frequency_seconds is within
\* [MIN_FREQUENCY_SECONDS, MAX_FREQUENCY_SECONDS] in every reachable state.
C6_IntervalRange ==
    \A f \in feeds : /\ MIN_FREQUENCY_SECONDS <= f.frequency_seconds
                     /\ f.frequency_seconds <= MAX_FREQUENCY_SECONDS

\* a poll at the floor that found new entries, and left the feed at the floor
C6_Witness ==
    /\ lastOp.op = "poll"
    /\ lastOp.committed
    /\ lastOp.new_count > 0
    /\ lastOp.frequency_before = MIN_FREQUENCY_SECONDS
    /\ \E f \in feeds : f.id = lastOp.feed /\ f.frequency_seconds = MIN_FREQUENCY_SECONDS

\* no two entries share (feed_id, guid)
UniqueFeedGuid ==
    \A a \in entries : \A b \in entries :
        (a.feed_id = b.feed_id /\ a.guid = b.guid) => a = b

\* a step that is one committed or rolled-back write of process_next_feed
PollStep == pollPc = "fetching" /\ lastOp'.op = "poll"

\* C7: unique entry per feed: no two entries share (feed_id, guid), also when
\* one batch repeats a guid and when a guid is seen again by a later poll; a
\* poll changes no field of an entry that exists, removes none, and adds
\* pending rows only for the entries it creates, one each.
C7_UniqueItemPerSource ==
    /\ []UniqueFeedGuid
    /\ [][PollStep =>
            /\ entries \subseteq entries'
            /\ \A e \in entries' \ entries :
                  /\ e.feed_id = pollFeed[1].id
                  /\ e.guid \in Range(lastOp'.batch)
                  /\ Existing(entries, e.feed_id, e.guid) = {}
            /\ pending' = pending \o SubSeq(pending', Len(pending) + 1, Len(pending'))
            /\ Len(pending') = Len(pending) + Cardinality(entries' \ entries)
            /\ \A i \in (Len(pending) + 1)..Len(pending') :
                  pending'[i] \in {e.id : e \in entries' \ entries}
         ]_vars

\* a committed poll whose batch held twice a guid that the polled feed has
\* stored already, and that another feed has stored too
C7_Witness ==
    /\ lastOp.op = "poll"
    /\ lastOp.committed
    /\ Len(lastOp.batch) = 2
    /\ lastOp.batch[1] = lastOp.batch[2]
    /\ lastOp.new_count = 0
    /\ \E e \in entries : e.feed_id = lastOp.feed /\ e.guid = lastOp.batch[1]
    /\ \E e \in entries : e.feed_id # lastOp.feed /\ e.guid = lastOp.batch[1]

\* C8: idempotent polling: a committed poll of a feed whose batch holds the
\* same set of guids as that feed's previous committed poll creates no entry
\* and no pending row, so the feed's entries are those of its first poll.
C8_PollIdempotent ==
    [][(PollStep /\ lastOp'.committed /\ lastOp'.repeat) =>
            /\ lastOp'.new_count = 0
            /\ entries' = entries
            /\ pending' = pending
      ]_vars

\* a later poll of one feed that returned the same non-empty set again
C8_Witness ==
    /\ lastOp.op = "poll"
    /\ lastOp.committed
    /\ lastOp.repeat
    /\ lastOp.batch # <<>>
    /\ lastOp.new_count = 0
    /\ lastOp.at = MaxPollNow

\* a step in which process_next_scored claims the first scored row
ClaimStep ==
    /\ discordPc = "idle"
    /\ scored # <<>>
    /\ EntryById(Head(scored)) # {}
    /\ lastOp'.op \in {"publish", "publish_send"}

\* C9: threshold skip: when the claimed scored entry has a score strictly
\* below DISCORD_MIN_SCORE (or none), the iteration removes its scored row,
\* ends without a send, and counts no Publisher invocation for any entry.
C9_ThresholdSkip ==
    [][(ClaimStep /\ \E e \in EntryById(Head(scored)) :
                        IF e.score = None THEN TRUE ELSE e.score[1] < DISCORD_MIN_SCORE)
          => /\ scored' = Tail(scored)
             /\ discordPc' = "idle"
             /\ entries' = entries
             /\ lastOp'.op = "publish" /\ lastOp'.outcome = "skip"
      ]_vars

\* a scored entry of rank 7 was skipped
C9_Witness ==
    /\ lastOp.op = "publish"
    /\ lastOp.outcome = "skip"
    /\ lastOp.score = DISCORD_MIN_SCORE - 1
    /\ discordPc = "idle"

\* a step that is delete_feed(feed_id) for a feed that exists
DeleteStep(feed_id) ==
    /\ feed_id \in FeedIds
    /\ lastOp'.op = "delete_feed"
    /\ lastOp'.feed = feed_id

\* C10: cascade delete: right after delete_feed commits, the feed is gone, no
\* entry of it remains, no pending, scored or error row refers to any of its
\* entries, and the other feeds, their entries and their rows are unchanged.
C10_CascadeDelete ==
    [][\A feed_id \in 1..MaxFeedId : DeleteStep(feed_id) =>
          LET gone == {e.id : e \in EntriesOf(feed_id)}
          IN  /\ feed_id \notin {f.id : f \in feeds'}
              /\ \A e \in entries' : e.feed_id # feed_id
              /\ \A id \in gone :
                    /\ id \notin Range(pending')
                    /\ id \notin Range(scored')
                    /\ \A i \in 1..Len(errors') : errors'[i].entry_id # id
              /\ {f \in feeds : f.id # feed_id} = feeds'
              /\ {e \in entries : e.feed_id # feed_id} = entries'
              /\ pending' = SelectSeq(pending, LAMBDA id : id \notin gone)
              /\ scored' = SelectSeq(scored, LAMBDA id : id \notin gone)
              /\ errors' = SelectSeq(errors, LAMBDA row : row.entry_id \notin gone)
      ]_vars

\* a feed was deleted together with an entry and an error row of it, while an
\* entry of another feed and that entry's scored row stay in the store
C10_Witness ==
    /\ lastOp.op = "delete_feed"
    /\ lastOp.entry_ids # {}
    /\ lastOp.rows.error
    /\ feeds # {}
    /\ \E e \in entries : e.id \in Range(scored)
    /\ errors = <<>>

\* the backoff is armed and has not expired
InBackoff == IF backoff_until = None THEN FALSE ELSE now < backoff_until[1]

\* the steps of one iteration of process_next_scored
PublishOps == {"publish_nothing", "publish_claim_raised", "publish_send", "publish"}

\* C11: backoff: when a publishing iteration returns "rate_limited" at time t,
\* backoff_until becomes t + DISCORD_RATE_LIMIT_BACKOFF_SECONDS; while the
\* clock is before backoff_until the running worker is idle, starts no
\* iteration of process_next_scored (claims no scored row, invokes no send)
\* and keeps backoff_until; each of its steps is a sleep of
\* min(remaining, 60) seconds that changes nothing in the store.
C11_Backoff ==
    /\ [](InBackoff => discordPc = "idle")
    /\ [][/\ (discordPc = "sending" /\ lastOp'.op = "publish"
                  /\ lastOp'.outcome = "rate_limited")
              => backoff_until' = Some(now + DISCORD_RATE_LIMIT_BACKOFF_SECONDS)
          /\ (InBackoff /\ lastOp'.op # "restart")
              => /\ lastOp'.op \notin PublishOps
                 /\ discordPc' = "idle"
                 /\ backoff_until' = backoff_until
                 /\ \A e \in entries : \A e2 \in entries' :
                        e2.id = e.id => e2.sends = e.sends
          /\ (InBackoff /\ lastOp'.op = "discord_backoff")
              => /\ lastOp'.sleep =
                        IF backoff_until[1] - now < 60
                        THEN backoff_until[1] - now ELSE 60
                 /\ UNCHANGED store
         ]_vars

\* the worker sleeps the last 30 seconds of a backoff while a scored row waits
C11_Witness ==
    /\ lastOp.op = "discord_backoff"
    /\ lastOp.sleep = 30
    /\ backoff_until = Some(now + 30)
    /\ scored # <<>>

\* C12: pipeline progress: while the three workers keep running, their calls
\* end and no feed is deleted, every entry that has a pending row comes to
\* have a scored row or an error row.
C12_PipelineProgress ==
    \A id \in 1..MaxEntryId :
        (id \in Range(pending)) ~> (id \in Range(scored) \/ id \in ErrorIds)

\* a step that ends a poll whose fetch_rss_entries raised
PollFailedStep == pollPc = "fetching" /\ lastOp'.op = "poll_failed"

\* C13: decoder failure: the step that ends a poll whose fetch raised sets
\* last_checked of the polled feed to the now the iteration started with,
\* leaves its frequency_seconds and every other feed as they were, and
\* leaves the entries and the pending, scored and error rows as they were.
C13_DecoderFailure ==
    [][PollFailedStep =>
          /\ entries' = entries
          /\ pending' = pending
          /\ scored' = scored
          /\ errors' = errors
          /\ feeds' = {IF f.id = pollFeed[1].id
                       THEN [f EXCEPT !.last_checked = Some(pollNow)]
                       ELSE f : f \in feeds}
      ]_vars

\* a failed poll, later than time 0, of a feed that has an entry and whose
\* interval an earlier poll had shortened
C13_Witness ==
    /\ lastOp.op = "poll_failed"
    /\ lastOp.committed
    /\ lastOp.at > 0
    /\ lastOp.frequency_before
          = DEFAULT_FREQUENCY_SECONDS - FREQUENCY_ADJUSTMENT_SECONDS
    /\ \E f \in feeds : /\ f.id = lastOp.feed
                         /\ f.last_checked = Some(lastOp.at)
                         /\ f.frequency_seconds = lastOp.frequency_before
                         /\ EntriesOf(f.id) # {}
    /\ pending # <<>>

\* the last row of queue q
Last(q) == q[Len(q)]

\* C14: ranker outcome routing: after a scoring iteration for a claimed entry
\* that is still in the store, the entry has no pending row and
\*  - for a rank r # 0: score = r, scored_at set, the new scored row is the
\*    entry's, and no error row refers to the entry;
\*  - for rank 0: the new error row is the entry's with message
\*    "Score returned 0", no scored row refers to it, its score is null;
\*  - for a ScoringError: the new error row is the entry's with the error's
\*    message, no scored row refers to it, its score is null.
C14_RankerRouting ==
    (lastOp.op = "score" /\ lastOp.outcome \in {"scored", "zero", "error"}
        /\ lastOp.claimed)
      => /\ lastOp.entry \notin Range(pending)
         /\ \A e \in EntryById(lastOp.entry) :
               IF lastOp.outcome = "error"
               THEN /\ errors # <<>>
                    /\ Last(errors) = [entry_id |-> e.id,
                                       error_message |-> lastOp.message]
                    /\ e.id \notin Range(scored)
                    /\ e.score = None
               ELSE IF lastOp.result = None
               THEN TRUE
               ELSE IF lastOp.result[1] = 0
               THEN /\ lastOp.outcome = "zero"
                    /\ errors # <<>>
                    /\ Last(errors) = [entry_id |-> e.id,
                                       error_message |-> "Score returned 0"]
                    /\ e.id \notin Range(scored)
                    /\ e.score = None
               ELSE /\ lastOp.outcome = "scored"
                    /\ e.score = lastOp.result
                    /\ e.scored_at # None
                    /\ scored # <<>>
                    /\ Last(scored) = e.id
                    /\ e.id \notin ErrorIds

\* C15: monotonic timestamps: every entry whose scored_at is set has
\* discovered_at <= scored_at.
C15_MonotonicTimestamps ==
    \A e \in entries : e.scored_at # None => e.discovered_at <= e.scored_at[1]

\* an entry discovered after the clock has moved was scored, and its id had
\* been claimed by the scoring worker before the entry was discovered
C15_Witness ==
    /\ lastOp.op = "score"
    /\ lastOp.outcome = "scored"
    /\ ~lastOp.claimed
    /\ \E e \in EntryById(lastOp.entry) :
          /\ e.discovered_at = MAX_FREQUENCY_SECONDS
          /\ e.scored_at = Some(e.discovered_at)

\* no two feeds share a url
UniqueUrl == \A f \in feeds : \A g \in feeds : f.url = g.url => f = g

\* C16: feed url uniqueness: no two feeds have the same url in any state
\* reached by add_feed and delete_feed requests (and polls); no add_feed
\* creates a feed for a url some feed has; the request for such a url ends
\* with HTTP 400 and leaves the feeds, entries and queue rows unchanged.
C16_UrlUnique ==
    /\ []UniqueUrl
    /\ [][/\ \A f \in feeds' \ feeds :
                lastOp'.op = "add_feed" => \A g \in feeds : g.url # f.url
          /\ lastOp'.op = "add_feed_400"
                => /\ \E f \in feeds : f.url = lastOp'.url
                   /\ UNCHANGED store
         ]_vars

\* add_feed was refused for the url of a feed that was polled before, while
\* a second feed with the largest id is in the store
C16_Witness ==
    /\ lastOp.op = "add_feed_400"
    /\ \E f \in feeds : f.url = lastOp.url /\ f.last_checked # None
    /\ \E g \in feeds : g.url # lastOp.url /\ g.id = MaxFeedId
    /\ Cardinality(feeds) = 2

\* a feed no poll has written to since add_feed created it
NeverChecked(f) == f.last_checked = None

\* a step that commits a poll (fetched or failed) to the feed row with this id
PollWrites(feed_id) ==
    /\ pollPc = "fetching"
    /\ pollFeed[1].id = feed_id
    /\ lastOp'.op \in {"poll", "poll_failed"}

C18_AdaptiveInterval ==
    [][\A f \in feeds :
          (PollStep /\ lastOp'.committed /\ pollFeed[1] = f) =>
             \E g \in feeds' :
                /\ g.id = f.id
                /\ g.last_checked = Some(pollNow)
                /\ g.frequency_seconds =
                      IF entries' \ entries # {}
                      THEN IF f.frequency_seconds - FREQUENCY_ADJUSTMENT_SECONDS
                                 < MIN_FREQUENCY_SECONDS
                           THEN MIN_FREQUENCY_SECONDS
                           ELSE f.frequency_seconds - FREQUENCY_ADJUSTMENT_SECONDS
                      ELSE IF f.frequency_seconds + FREQUENCY_ADJUSTMENT_SECONDS
                                 > MAX_FREQUENCY_SECONDS
                           THEN MAX_FREQUENCY_SECONDS
                           ELSE f.frequency_seconds + FREQUENCY_ADJUSTMENT_SECONDS
      ]_vars

\* a feed created at 3600 went to 3540 by a poll that found two new entries
\* and is back at 3600 after the next poll returned the same two guids
C18_Witness ==
    /\ lastOp.op = "poll"
    /\ lastOp.committed
    /\ lastOp.repeat
    /\ lastOp.new_count = 0
    /\ lastOp.frequency_before
          = DEFAULT_FREQUENCY_SECONDS - FREQUENCY_ADJUSTMENT_SECONDS
    /\ \E f \in feeds : /\ f.id = lastOp.feed
                         /\ f.frequency_seconds = DEFAULT_FREQUENCY_SECONDS
                         /\ Cardinality(EntriesOf(f.id)) = 2

\* C19: no worker is inside a get_session() block while its network call
\* (fetch, ranker call, send) is in progress.
C19_NoSessionAcrossCall == OpenSessions \cap InNetworkCall = {}

\* feed is due at time t: never checked, or last_checked + frequency_seconds <= t
DueAt(f, t) ==
    IF f.last_checked = None THEN TRUE
    ELSE f.last_checked[1] + f.frequency_seconds <= t

\* C20: the polling worker goes to its idle sleep only when no feed is due:
\* right after an iteration of process_next_feed that returned False there
\* is no feed that is due now.
C20_IdleOnlyWhenNoneDue ==
    lastOp.op = "poll_nothing" => \A f \in feeds : ~DueAt(f, now)

\* C21: a failed scoring iteration does not lose the entry: right after an
\* iteration that claimed an entry and ended with an exception that is no
\* ScoringError, the entry (if it is still in the store) has a pending row.
C21_FailedScoringKeepsItem ==
    (lastOp.op = "score" /\ lastOp.outcome = "raised"
        /\ EntryById(lastOp.entry) # {})
      => lastOp.entry \in Range(pending)

\* C22: a rate limit reported by the chat client reaches the dispatcher: when
\* the client's send fails with an error whose message holds "rate limit" or
\* "too many", the publishing iteration yields the rate-limit outcome and the
\* worker sets backoff_until to now + DISCORD_RATE_LIMIT_BACKOFF_SECONDS.
C22_RateLimitReachesDispatcher ==
    [][\A client \in {"rate limit", "too many"} :
          PublishDone(send_to_discord(client))
            => /\ lastOp'.outcome = "rate_limited"
               /\ backoff_until' = Some(now + DISCORD_RATE_LIMIT_BACKOFF_SECONDS)]_vars

\* C23: a rate-limited entry is delivered later: after a publishing iteration
\* for an entry ended with the rate-limit outcome (early enough for the backoff
\* to expire on the bounded clock, no feed deleted, no shutdown), the Publisher
\* is eventually invoked for that entry again.
C23_RateLimitedDeliveredLater ==
    \A id \in 1..MaxEntryId :
        (/\ lastOp.op = "publish"
         /\ lastOp.outcome = "rate_limited"
         /\ lastOp.entry = id
         /\ now + DISCORD_RATE_LIMIT_BACKOFF_SECONDS + MaxOf(DiscordTicks) <= MaxDiscordNow)
          ~> (lastOp.op = "publish_send" /\ lastOp.entry = id)

\* the feed the poll loaded is no longer in the store: no row has its id and
\* its url (a row's url never changes, so the loaded feed was deleted)
PolledFeedDeleted ==
    /\ pollPc = "fetching"
    /\ ~\E f \in feeds : f.id = pollFeed[1].id /\ f.url = pollFeed[1].url

\* C24: feed deletion during a poll: when the feed being polled was deleted
\* while the fetch was in progress, the poll's write is rolled back as a
\* whole: the poll ends without changing any feed, entry or pending row.
C24_DeletedSourcePollRolledBack ==
    [][(PolledFeedDeleted /\ pollPc' # "fetching")
         => (feeds' = feeds /\ entries' = entries /\ pending' = pending)]_vars

\* C25: single delivery attempt: a claimed scored entry whose score is at
\* least DISCORD_MIN_SCORE is handed to the Publisher, and when every send
\* ends in success or in a failure that is no rate limit, its scored row is
\* removed and the Publisher is never invoked for that entry again.
C25_SingleDeliveryAttempt ==
    /\ \A e \in entries : e.sends <= 1
    /\ discordPc = "sending" => ~BelowThreshold(discordScore)

\* the entry row e is still in the store after the step
Kept(e) ==
    \E k \in entries' : k.id = e.id /\ k.feed_id = e.feed_id /\ k.guid = e.guid

\* C26: an error row is terminal: once an entry has an error row, then as
\* long as the entry is in the store it keeps an error row, it does not enter
\* the pending or the scored queue, its score stays null and the scoring
\* worker does not claim it again.
C26_ErrorTerminal ==
    [][\A e \in entries :
          (e.id \in ErrorIds /\ Kept(e))
            => /\ e.id \in {r.entry_id : r \in Range(errors')}
               /\ \A k \in entries' : k.id = e.id => k.score = None
               /\ e.id \notin Range(pending) => e.id \notin Range(pending')
               /\ e.id \notin Range(scored) => e.id \notin Range(scored')
               /\ ~(scorePc = "idle" /\ scorePc' = "ranking" /\ scoreEntry' = e.id)]_vars

\* entry a was inserted, with its pending row, before entry b: in an earlier
\* poll, or earlier in the same poll (ids grow within one transaction)
EnteredBefore(a, b) ==
    /\ a.discovered_at <= b.discovered_at
    /\ a.id < b.id

FirstIndex(batch, guid) ==
    CHOOSE i \in 1..Len(batch) :
        batch[i] = guid /\ \A j \in 1..(i - 1) : batch[j] # guid

\* the pending rows the last poll inserted, in row order
NewRows == SubSeq(pending, Len(pending) - lastOp.new_count + 1, Len(pending))

\* C28: the order of the fetched entries is preserved: right after a poll that
\* was committed, the entries it created and their pending rows are in the
\* order in which fetch_rss_entries returned them (entry ids and pending row
\* positions grow with the position in the batch).
C28_DecoderOrder ==
    (lastOp.op = "poll" /\ lastOp.committed)
      => \A i \in 1..lastOp.new_count : \A j \in 1..lastOp.new_count :
           i < j =>
             /\ NewRows[i] < NewRows[j]
             /\ \A a \in EntryById(NewRows[i]) : \A b \in EntryById(NewRows[j]) :
                   /\ a.feed_id = lastOp.feed /\ b.feed_id = lastOp.feed
                   /\ FirstIndex(lastOp.batch, a.guid) < FirstIndex(lastOp.batch, b.guid)

\* a poll that returned g2 before g1 and created an entry for each
C28_Witness ==
    /\ lastOp.op = "poll"
    /\ lastOp.committed
    /\ lastOp.new_count = 2
    /\ lastOp.batch = <<"g2", "g1">>
    /\ EntryById(NewRows[1]) # {}
    /\ EntryById(NewRows[2]) # {}

\* lifespan has cancelled the worker tasks
ShutdownIssued ==
    \/ pollPc \in {"cancelled", "done"}
    \/ scorePc \in {"cancelled", "done"}
    \/ discordPc \in {"cancelled", "done"}

\* what the first step of an outer iteration of a worker records
IterationStarts ==
    {"poll_nothing", "poll_select", "score_nothing", "score_claim",
     "score_claim_raised", "discord_backoff", "publish_nothing", "publish_send",
     "publish_claim_raised"}

\* C29: cancellation is observed between iterations: once lifespan has
\* cancelled the worker tasks no worker starts a new outer iteration (no new
\* poll of a feed, no new claim of a pending row or of a scored row).
C29_CancellationObserved ==
    ShutdownIssued
      => /\ lastOp.op \notin IterationStarts
         /\ lastOp.op = "publish" => lastOp.outcome # "skip"

\* the scoring worker was ended by the cancellation after it had scored an
\* entry, while a pending row was waiting for its next iteration
C29_Witness ==
    /\ lastOp.op = "cancelled"
    /\ lastOp.worker = "scoring_worker"
    /\ scorePc = "done"
    /\ pending # <<>>
    /\ \E e \in entries : e.score # None

\* C30: startup ordering: init_db has returned before any worker exists and
\* takes its first step, and when init_db raises no worker is started.
C30_StartupOrdering ==
    [][/\ (pollPc = "off" /\ pollPc' # "off") => (lastOp.op = "init_db" /\ lastOp.ok)
       /\ (scorePc = "off" /\ scorePc' # "off") => (lastOp.op = "init_db" /\ lastOp.ok)
       /\ (discordPc = "off" /\ discordPc' # "off") => (lastOp.op = "init_db" /\ lastOp.ok)
       /\ lastOp'.op \in IterationStarts
            => (pollPc # "off" /\ scorePc # "off" /\ discordPc # "off")
       /\ (lastOp.op = "init_db" /\ ~lastOp.ok)
            => (pollPc' = "off" /\ scorePc' = "off" /\ discordPc' = "off")]_vars

\* the workers were created after init_db returned, and one has taken a step
C30_Witness ==
    /\ lastOp.op \in IterationStarts
    /\ pollPc # "off"
    /\ scorePc # "off"
    /\ discordPc # "off"

\* the three awaits of lifespan have returned: every worker coroutine ended
ShutdownComplete == pollPc = "done" /\ scorePc = "done" /\ discordPc = "done"

\* C31: shutdown terminates: after lifespan has cancelled the three workers,
\* whatever await each of them was suspended in, every worker eventually ends
\* and the shutdown completes.
C31_ShutdownTerminates == ShutdownIssued ~> ShutdownComplete

\* the shutdown completed although the publishing worker was cancelled in a
\* backoff that had not expired
C31_Witness ==
    /\ ShutdownComplete
    /\ backoff_until # None
    /\ now < backoff_until[1]

\* the step ends an iteration of the polling worker with an exception (the
\* commit failed)
PollRaisedStep ==
    /\ pollPc = "fetching"
    /\ pollPc' # "fetching"
    /\ lastOp'.op \in {"poll", "poll_failed"}
    /\ ~lastOp'.committed

\* the step ends an iteration of the scoring worker with an exception
ScoreRaisedStep ==
    \/ /\ scorePc = "ranking"
       /\ scorePc' # "ranking"
       /\ lastOp'.op = "score"
       /\ lastOp'.outcome \in {"raised", "gone"}
    \/ /\ scorePc = "idle"
       /\ lastOp # lastOp'
       /\ lastOp'.op = "score_claim_raised"

\* the step ends an iteration of the publishing worker with an exception
PublishRaisedStep ==
    /\ discordPc = "idle"
    /\ lastOp # lastOp'
    /\ lastOp'.op = "publish_claim_raised"

Created(e) ==
    /\ e \in entries'
    /\ ~\E k \in entries : k.id = e.id /\ k.feed_id = e.feed_id /\ k.guid = e.guid

\* C33: an entry is created together with its pending row: in the state a
\* step leaves behind, every entry the step created has exactly one pending
\* row, a null score and a null scored_at; only a committed poll creates
\* entries, and a poll whose commit fails leaves entries and pending rows as
\* they were.
C33_CreatedWithPendingRow ==
    [][/\ \A e \in entries' :
            Created(e)
              => /\ RowCount(pending', e.id) = 1
                 /\ e.score = None
                 /\ e.scored_at = None
                 /\ pollPc = "fetching"
                 /\ lastOp'.op = "poll"
                 /\ lastOp'.committed
       /\ PollRaisedStep => (entries' = entries /\ pending' = pending)]_vars

\* a committed poll has just created an entry whose id an earlier entry had
C33_Witness ==
    /\ lastOp.op = "poll"
    /\ lastOp.committed
    /\ lastOp.new_count = 1
    /\ \E e \in entries :
         /\ e.id = Last(pending)
         /\ e.score = None
         /\ \E r \in Range(errors) : r.entry_id = e.id

\* rows e (before the step) and k (after it) are the same entry
SameEntry(e, k) == k.id = e.id /\ k.feed_id = e.feed_id /\ k.guid = e.guid

\* the step is the write of the scoring worker's second session
ScoringWrite == scorePc = "ranking" /\ lastOp'.op = "score"

\* the step is the commit of a poll
PollWrite == pollPc = "fetching" /\ lastOp'.op \in {"poll", "poll_failed"}

\* C34: write ownership: frequency_seconds and last_checked of a feed are
\* changed only by the polling worker; feed_id, guid and discovered_at of an
\* entry never change; its score and scored_at are written only by the scoring
\* worker, and only while they are null (at most once per entry).
C34_WriteOwnership ==
    [][/\ \A f \in feeds : \A g \in feeds' :
            (g.id = f.id /\ g.url = f.url
               /\ (g.frequency_seconds # f.frequency_seconds
                      \/ g.last_checked # f.last_checked))
              => PollWrite
       /\ \A e \in entries : \A k \in entries' :
            SameEntry(e, k)
              => /\ k.discovered_at = e.discovered_at
                 /\ (k.score # e.score \/ k.scored_at # e.scored_at)
                      => (ScoringWrite /\ e.score = None /\ e.scored_at = None)]_vars

\* the entries that were scored today
ScoredTodayEntries ==
    {e \in entries : e.scored_at # None /\ e.scored_at[1] >= TodayStart(now)}

\* C35: right after GET /stats the reported scored_today is the number of
\* entries that were scored today, whether or not the publishing worker has
\* removed their scored rows, and the reported queue sizes are the numbers of
\* pending, scored and error rows.
C35_StatsScoredToday ==
    lastOp.op = "stats"
      => /\ lastOp.scored_today = Cardinality(ScoredTodayEntries)
         /\ lastOp.total_pending = Len(pending)
         /\ lastOp.total_scored = Len(scored)
         /\ lastOp.total_errors = Len(errors)

\* C36: the Publisher is invoked at most once per entry over any run of the
\* pipeline, whatever the outcomes of the sends and however the iterations
\* of the workers, the requests and restarts interleave.
C36_AtMostOnePublish ==
    lastOp.op = "publish_send"
      => \A e \in EntryById(lastOp.entry) : e.sends = 1

\* C37: queue rows agree with the score: every entry a scored row refers to
\* has a non-null, non-zero score and a non-null scored_at, and every entry a
\* pending row or an error row refers to has a null score.
C37_QueuesAgreeWithScore ==
    \A e \in entries :
        /\ e.id \in Range(scored)
             => (e.score # None /\ e.score # Some(0) /\ e.scored_at # None)
        /\ e.id \in Range(pending) => e.score = None
        /\ e.id \in ErrorIds => e.score = None

\* C38: round-robin polling: while a never-checked feed is in the store the
\* polling worker selects a never-checked feed and polls it whatever its
\* interval; a committed poll attempt (fetched or failed) leaves the polled
\* feed with the latest last_checked of all feeds; and when a feed is selected
\* again, every other feed in the store was checked after that feed's
\* previous poll began.
C38_RoundRobin ==
    [][/\ (AtLoopHead /\ pollPc' = "fetching")
            => /\ (\E f \in feeds : f.last_checked = None)
                    => pollFeed'[1].last_checked = None
               /\ pollFeed'[1].last_checked # None
                    => \A g \in feeds \ {pollFeed'[1]} :
                          /\ g.last_checked # None
                          /\ g.last_checked[1] > pollFeed'[1].last_checked[1]
       /\ (AtLoopHead /\ lastOp'.op = "poll_nothing")
            => \A f \in feeds : f.last_checked # None
       /\ (PollWrite /\ lastOp'.committed)
            => \A f \in feeds' :
                  /\ f.id = lastOp'.feed => f.last_checked = Some(pollNow)
                  /\ f.last_checked # None => f.last_checked[1] <= pollNow]_vars

\* a feed is selected for its second poll after the other feed, which was in
\* the store all the time, was polled in between
C38_Witness ==
    /\ lastOp.op = "poll_select"
    /\ pollFeed # None
    /\ pollFeed[1].last_checked # None
    /\ pollFeed[1].last_batch # None
    /\ \E g \in feeds :
         /\ g.id # pollFeed[1].id
         /\ g.last_batch # None
         /\ g.last_checked # None
         /\ g.last_checked[1] > pollFeed[1].last_checked[1]

\* what a step of the scoring worker, of the publishing worker or of the
\* shutdown records
OtherWorkerOps ==
    {"score_nothing", "score_claim", "score_claim_raised", "score",
     "discord_backoff", "publish_nothing", "publish", "publish_send",
     "publish_claim_raised", "shutdown", "cancelled"}

\* C39: a poll iteration is atomic with respect to the other workers: between
\* the selection of a feed and the commit, and between an iteration that
\* reported a processed feed and the next iteration, no step of the scoring
\* worker or of the publishing worker and no cancellation occurs.
C39_PollAtomic ==
    [][/\ pollPc \in {"fetching", "looping"}
            => /\ lastOp'.op \notin OtherWorkerOps
               /\ UNCHANGED <<scorePc, scoreEntry, discordPc, discordEntry,
                               discordScore, backoff_until>>
       /\ (lastOp.op \in {"poll", "poll_failed"} /\ lastOp.committed)
            => lastOp'.op \notin OtherWorkerOps]_vars

\* an iteration has just reported a processed feed while a pending row waits
\* for the scoring worker and a send of the publishing worker is in flight
C39_Witness ==
    /\ pollPc = "looping"
    /\ lastOp.op = "poll"
    /\ pending # <<>>
    /\ scorePc = "idle"
    /\ discordPc = "sending"

\* the backoff was armed by a rate-limit outcome and has expired
BackoffExpired ==
    IF backoff_until = None THEN FALSE ELSE ~(now < backoff_until[1])

\* C40: backoff ends: after an iteration ended with the rate-limit outcome
\* (early enough for the backoff to expire on the bounded clock) backoff_until
\* is eventually None again; once the clock has reached backoff_until, the
\* next step of the idle publishing worker is no sleep: it clears
\* backoff_until and runs process_next_scored, which claims the first scored
\* row when there is one; and backoff_until is None after a restart.
C40_BackoffEnds ==
    /\ (/\ lastOp.op = "publish"
         /\ lastOp.outcome = "rate_limited"
         /\ now + DISCORD_RATE_LIMIT_BACKOFF_SECONDS + MaxOf(DiscordTicks) <= MaxDiscordNow)
          ~> (backoff_until = None)
    /\ [][/\ (BackoffExpired /\ discordPc = "idle" /\ discord_worker)
               => /\ backoff_until' = None
                  /\ lastOp'.op \in {"publish_nothing", "publish_claim_raised",
                                     "publish_send", "publish"}
                  /\ (scored # <<>>
                       => /\ lastOp'.op # "publish_nothing"
                          /\ lastOp'.entry = Head(scored))
           /\ (lastOp'.op = "restart" => backoff_until' = None)]_vars

\* a backoff armed by a rate limit has run out while a scored row waits
C40_Witness ==
    /\ BackoffExpired
    /\ discordPc = "idle"
    /\ scored # <<>>
    /\ \E e \in entries : e.sends > 0

====
